---- MODULE Spec2Model ----
(***************************************************************************)
(* Billing-period and attendance reconciliation of the tuition-centre      *)
(* application (src/src/App.tsx; src/unnamed/part_000 is the earlier       *)
(* variant without attendance).                                            *)
(*                                                                         *)
(* The store (students, fees, attendance tables) is the hosted backend;    *)
(* the client holds the published state (students, attendance, dashboard)  *)
(* and runs fetchData as an asynchronous task that is suspended at every   *)
(* store read.  Calendar dates are day numbers: month m covers the days    *)
(* (m-1)*DaysPerMonth+1 .. m*DaysPerMonth, months are numbered             *)
(* consecutively across years.                                             *)
(***************************************************************************)
EXTENDS Integers, Sequences, FiniteSets, TLC

\* ------------------------------------------------------------------ bounds
NumMonths == 2
DaysPerMonth == 2
MaxStudents == 2
MaxFees == 2
MaxPasses == 2
MaxAttendance == 2

Months == 1..NumMonths
Dates == 1..(NumMonths * DaysPerMonth)
Amounts == {3, 5}
PaymentModes == {"Cash", "Online"}
AttendanceStatuses == {"Present", "Absent", "Leave", "Holiday"}
\* offset of the client's local time zone from UTC: west, none, east
TimeZones == {-1, 0, 1}

\* an optional value (null / undefined in the source) is a set of at most one
Null == {}
Some(x) == {x}
Get(o) == CHOOSE x \in o : TRUE

\* text is a sequence of characters
\* String.prototype.toLowerCase, on the letters the model's names use
ToLowerCase(str) ==
    [i \in DOMAIN str |-> CASE str[i] = "A" -> "a"
                             [] str[i] = "R" -> "r"
                             [] OTHER -> str[i]]

\* String.prototype.includes
Includes(str, term) ==
    \E k \in 0..(Len(str) - Len(term)) : SubSeq(str, k + 1, k + Len(term)) = term

\* the class grades in use, and the name and parent's phone entered for the
\* student with id i
Classes == {<<"9">>, <<"1", "0">>}
NameOf(i) == IF i % 2 = 1 THEN <<"A", "n", "u">> ELSE <<"R", "a", "j">>
PhoneOf(i) == IF i % 2 = 1 THEN <<"7", "0", "1">> ELSE <<"9", "8", "2">>
\* what the class selector and the search box can hold: nothing, or a class
SearchTerms == {<<>>} \cup Classes

VARIABLES
    dbStudents,      \* students table: sequence of rows, the index is the id
    dbFees,          \* fees table: sequence of rows in insertion order
    dbAttendance,    \* attendance table: set of rows, unique on (student_id, attendance_date)
    tz,              \* the client's time zone
    today,           \* the current UTC date
    session,         \* useState session (TRUE when signed in)
    selectedMonth,   \* useState selectedMonth
    attendanceDate,  \* useState attendanceDate
    students,        \* useState students (published)
    attendance,      \* useState attendance (published)
    dashboard,       \* useState dashboard (published, Null before the first pass)
    subscribed,      \* the realtime channels registered, in registration order
    notify,          \* a change notification is on its way to the client
    passes,          \* fetchData executions in flight, in start order
    origin,          \* history: what the published pieces came from (see Init)
    log              \* history: the last write and its outcome (see Init)

store == <<dbStudents, dbFees, dbAttendance>>
vars == <<dbStudents, dbFees, dbAttendance, tz, today, session, selectedMonth,
          attendanceDate, students, attendance, dashboard, subscribed, notify,
          passes, origin, log>>

\* ---------------------------------------------------------------- calendar
MonthOf(d) == (d + DaysPerMonth - 1) \div DaysPerMonth
FirstDay(m) == (m - 1) * DaysPerMonth + 1
LastDay(m) == m * DaysPerMonth

\* `${selectedMonth}-01`
StartOfMonth(m) == FirstDay(m)

\* new Date(new Date(startOfMonth).getFullYear(), new Date(startOfMonth).getMonth() + 1, 0)
\*   .toISOString().split('T')[0]
\* new Date("YYYY-MM-01") is midnight UTC; getFullYear/getMonth read it in local
\* time (the previous month west of UTC); the Date constructor builds local
\* midnight of that month's last day; toISOString prints it in UTC (the day
\* before, east of UTC).
LocalMonth(m, z) == IF z < 0 THEN m - 1 ELSE m
EndOfMonth(m, z) == IF z > 0 THEN LastDay(LocalMonth(m, z)) - 1 ELSE LastDay(LocalMonth(m, z))

\* ------------------------------------------------------------ store queries
StudentRows == {dbStudents[i] : i \in 1..Len(dbStudents)}

\* variant: admission strictly before the end of the month (.lt for .lte)
IsActiveInStrict(s, start, end) ==
    /\ s.admission_date < end
    /\ \/ s.status = "Active"
       \/ \E d \in s.leaving_date : d >= start

\* .lte('admission_date', endOfMonth).or(`status.eq.Active,leaving_date.gte.${startOfMonth}`)
IsActiveIn(s, start, end) ==
    /\ s.admission_date <= end
    /\ \/ s.status = "Active"
       \/ \E d \in s.leaving_date : d >= start

ActiveStudentsQuery(rows, start, end) == {s \in rows : IsActiveIn(s, start, end)}

\* variant: one row per student, the first (a distinct-on-student query)
PaidFeesQueryDistinct(fees, m) ==
    LET ofMonth == SelectSeq(fees, LAMBDA f : f.fee_month = m)
        first == {i \in 1..Len(ofMonth) :
                    \A k \in 1..(i - 1) : ofMonth[k].student_id # ofMonth[i].student_id}
        Nth(n) == CHOOSE i \in first : Cardinality({k \in first : k < i}) = n - 1
    IN [n \in 1..Cardinality(first) |-> ofMonth[Nth(n)]]

\* .eq('fee_month', selectedMonth)
PaidFeesQuery(fees, m) == SelectSeq(fees, LAMBDA f : f.fee_month = m)

\* .select('*, student:students(full_name, class_grade, batch_timing)'): each fee
\* row with the columns of its student embedded
WithStudent(fees, table) ==
    [i \in 1..Len(fees) |->
        [ student_id   |-> fees[i].student_id,
          fee_month    |-> fees[i].fee_month,
          amount       |-> fees[i].amount,
          payment_mode |-> fees[i].payment_mode,
          student      |-> [ full_name   |-> table[fees[i].student_id].full_name,
                             class_grade |-> table[fees[i].student_id].class_grade ] ]]

\* variant: the left students among the active set (admitted by the end of the month)
LeftStudentsQueryOfActive(rows, start, end) ==
    {s \in rows : /\ s.status = "Left"
                  /\ s.admission_date <= end
                  /\ \E d \in s.leaving_date : d >= start /\ d <= end}

\* .eq('status', 'Left').gte('leaving_date', startOfMonth).lte('leaving_date', endOfMonth)
LeftStudentsQuery(rows, start, end) ==
    {s \in rows : s.status = "Left" /\ \E d \in s.leaving_date : d >= start /\ d <= end}

\* .eq('attendance_date', attendanceDate)
AttendanceQuery(att, d) == {a \in att : a.attendance_date = d}

\* variant: without the upper bound
MonthlyAttQueryFrom(att, start, end) == {a \in att : a.attendance_date >= start}

\* .gte('attendance_date', startOfMonth).lte('attendance_date', endOfMonth)
MonthlyAttQuery(att, start, end) ==
    {a \in att : a.attendance_date >= start /\ a.attendance_date <= end}

\* ------------------------------------------------------------- derivations
RECURSIVE SumAmounts(_)
\* paidFees.reduce((sum, f) => sum + f.amount, 0)
SumAmounts(fees) ==
    IF fees = <<>> THEN 0 ELSE Head(fees).amount + SumAmounts(Tail(fees))

\* paidFees.filter(f => f.payment_mode === mode)
FilterMode(fees, mode) == SelectSeq(fees, LAMBDA f : f.payment_mode = mode)

\* new Set(paidFees.map(f => f.student_id))
PaidStudentIds(fees) == {fees[i].student_id : i \in 1..Len(fees)}

\* variant: paid means exactly one row
UnpaidStudentsOneRow(active, fees) ==
    {s \in active : Cardinality({i \in 1..Len(fees) : fees[i].student_id = s.id}) # 1}

\* activeStudents.filter(s => !paidStudentIds.has(s.id))
UnpaidStudents(active, fees) == {s \in active : s.id \notin PaidStudentIds(fees)}

\* paidCount: paidFees.length
PaidCount(fees) == Len(fees)

\* variant: unpaidCount as activeStudents.length - paidFees.length
MakeDashboardCountByRows(active, fees, left, monthly) ==
    [ activeCount       |-> Cardinality(active),
      totalCollected    |-> SumAmounts(fees),
      cashCollected     |-> SumAmounts(FilterMode(fees, "Cash")),
      onlineCollected   |-> SumAmounts(FilterMode(fees, "Online")),
      paidCount         |-> PaidCount(fees),
      unpaidCount       |-> Cardinality(active) - Len(fees),
      leftThisMonth     |-> IF left = Null THEN 0 ELSE Cardinality(Get(left)),
      unpaidStudents    |-> UnpaidStudents(active, fees),
      paidFees          |-> fees,
      monthlyAttendance |-> IF monthly = Null THEN {} ELSE Get(monthly) ]

\* variant: onlineCollected filtered on 'Cash' as cashCollected is
MakeDashboardOnlineAsCash(active, fees, left, monthly) ==
    [ activeCount       |-> Cardinality(active),
      totalCollected    |-> SumAmounts(fees),
      cashCollected     |-> SumAmounts(FilterMode(fees, "Cash")),
      onlineCollected   |-> SumAmounts(FilterMode(fees, "Cash")),
      paidCount         |-> PaidCount(fees),
      unpaidCount       |-> Cardinality(UnpaidStudents(active, fees)),
      leftThisMonth     |-> IF left = Null THEN 0 ELSE Cardinality(Get(left)),
      unpaidStudents    |-> UnpaidStudents(active, fees),
      paidFees          |-> fees,
      monthlyAttendance |-> IF monthly = Null THEN {} ELSE Get(monthly) ]

\* the object handed to setDashboard
MakeDashboard(active, fees, left, monthly) ==
    [ activeCount       |-> Cardinality(active),
      totalCollected    |-> SumAmounts(fees),
      cashCollected     |-> SumAmounts(FilterMode(fees, "Cash")),
      onlineCollected   |-> SumAmounts(FilterMode(fees, "Online")),
      paidCount         |-> PaidCount(fees),
      unpaidCount       |-> Cardinality(UnpaidStudents(active, fees)),
      leftThisMonth     |-> IF left = Null THEN 0 ELSE Cardinality(Get(left)),
      unpaidStudents    |-> UnpaidStudents(active, fees),
      paidFees          |-> fees,
      monthlyAttendance |-> IF monthly = Null THEN {} ELSE Get(monthly) ]

\* ------------------------------------------------------------------- state
\* a tag for a new fetchData execution, distinct from the tag of every
\* execution in flight and of every execution a published piece came from
UsedIds == {passes[i].id : i \in 1..Len(passes)}
              \cup {origin.students, origin.attendance, origin.dashboard}
FreshId == CHOOSE n \in 1..(Len(passes) + 4) :
              n \notin UsedIds /\ \A k \in 1..(n - 1) : k \in UsedIds

\* origin.students, .attendance, .dashboard: the tag of the pass that published
\*   the piece (0: none yet);
\* origin.month, .activeStudents, .studentTable, .feeTable: of the pass that
\*   published the dashboard, its month, the active students it read, and the
\*   students and fees tables as they were when it read them;
\* origin.leftTable, .attTable: the students table when that pass read the left
\*   students, the attendance table when it read the monthly attendance;
\* origin.failed: the reads of that pass that failed;
\* origin.afterError: that pass made its first read after some error;
\* origin.stale: that pass had started before a pass that published earlier;
\* origin.snapshot: some store state that existed while that pass read yields
\*   the dashboard it published.
\* log.op, .ok, .alerted: the last write the user made, whether the store
\*   applied all of it, whether alert() was called;
\* log.before, .rows, .term: of an attendance write, the attendance table before
\*   it, the rows submitted and the search term in force;
\* log.erred: a read has failed or a write was rejected at some time.
\* The record of a write is kept until the next pass makes its first read
\* (op = "none" from then on); log.erred is kept for good.
NoWrite == [op |-> "none", ok |-> TRUE, alerted |-> FALSE,
            before |-> {}, rows |-> {}, term |-> <<>>, erred |-> FALSE]

\* history: the log after a write
Written(op, ok, alerted, rows, term) ==
    [op |-> op, ok |-> ok, alerted |-> alerted,
     before |-> IF op \in {"markAttendance", "markAll"} THEN dbAttendance ELSE {},
     rows |-> rows, term |-> term, erred |-> (log.erred \/ ~ok)]

\* history: the log after a store read
ReadDone(ok) == IF ok THEN log ELSE [log EXCEPT !.erred = TRUE]

InitClient ==
    /\ session = FALSE
    /\ selectedMonth = MonthOf(today)
    /\ attendanceDate = today
    /\ students = {}
    /\ attendance = {}
    /\ dashboard = Null
    /\ subscribed = <<>>
    /\ notify = FALSE
    /\ passes = <<>>
    /\ origin = [students |-> 0, attendance |-> 0, dashboard |-> 0,
                 month |-> 0, activeStudents |-> {}, studentTable |-> {},
                 feeTable |-> <<>>, leftTable |-> {}, attTable |-> {},
                 failed |-> {}, afterError |-> FALSE,
                 stale |-> FALSE, snapshot |-> TRUE]
    /\ log = NoWrite

\* ---------------------------------------------------------------- fetchData
\* variant: no pass is started once an error has occurred
FetchDataHalted(ps, sess, m, d) ==
    IF ~sess \/ log.erred THEN ps
    ELSE Append(ps, [ id             |-> FreshId,
                      pc             |-> "students",
                      month          |-> m,
                      date           |-> d,
                      activeStudents |-> Null,
                      paidFees       |-> Null,
                      leftStudents   |-> Null,
                      studentTable   |-> {},
                      feeTable       |-> <<>>,
                      leftTable      |-> {},
                      failed         |-> {},
                      afterError     |-> FALSE,
                      stale          |-> FALSE,
                      snaps          |-> {} ])

\* fetchData up to its first store read: the session guard, and the closure's
\* selectedMonth and attendanceDate.  (The health-check reads that follow
\* write only dbHealth, which no derivation reads; they are not modelled.)
FetchData(ps, sess, m, d) ==
    IF ~sess THEN ps
    ELSE Append(ps, [ id             |-> FreshId,
                      pc             |-> "students",
                      month          |-> m,
                      date           |-> d,
                      activeStudents |-> Null,
                      paidFees       |-> Null,
                      leftStudents   |-> Null,
                      studentTable   |-> {},
                      feeTable       |-> <<>>,
                      leftTable      |-> {},
                      failed         |-> {},
                      afterError     |-> FALSE,
                      stale          |-> FALSE,
                      snaps          |-> {} ])

\* variant: a read takes the month selected when it is issued
ClosureMonthLive(p) == selectedMonth

\* `selectedMonth` inside fetchData: the value of the render that created the
\* running execution, whatever is selected by the time a read is issued
ClosureMonth(p) == p.month

\* history: every pass that has begun its dashboard reads records the store
\* states that exist while it runs
Observe(ps, st) ==
    [i \in 1..Len(ps) |->
        IF ps[i].pc \in {"fees", "left", "monthly"}
        THEN [ps[i] EXCEPT !.snaps = @ \cup {st}]
        ELSE ps[i]]

\* history: the reads of the pass that have failed so far
Failed(p, ok) == IF ok THEN p.failed ELSE p.failed \cup {p.pc}

\* const { data: studentsData } = await ...; if (studentsData) setStudents(studentsData)
PassStudents(i, ok) ==
    /\ i \in 1..Len(passes)
    /\ passes[i].pc = "students"
    /\ passes' = [passes EXCEPT ![i].pc = "attendance",
                                ![i].failed = Failed(passes[i], ok),
                                ![i].afterError = log.erred]
    /\ IF ok
       THEN /\ students' = StudentRows
            /\ origin' = [origin EXCEPT !.students = passes[i].id]
       ELSE UNCHANGED <<students, origin>>
    /\ log' = [NoWrite EXCEPT !.erred = ReadDone(ok).erred]
    /\ UNCHANGED <<store, tz, today, session, selectedMonth, attendanceDate,
                   attendance, dashboard, subscribed, notify>>

\* const { data: attData } = await ...; if (attData) setAttendance(attData)
PassAttendance(i, ok) ==
    /\ i \in 1..Len(passes)
    /\ passes[i].pc = "attendance"
    /\ passes' = [passes EXCEPT ![i].pc = "active",
                                ![i].failed = Failed(passes[i], ok)]
    /\ IF ok
       THEN /\ attendance' = AttendanceQuery(dbAttendance, passes[i].date)
            /\ origin' = [origin EXCEPT !.attendance = passes[i].id]
       ELSE UNCHANGED <<attendance, origin>>
    /\ log' = ReadDone(ok)
    /\ UNCHANGED <<store, tz, today, session, selectedMonth, attendanceDate,
                   students, dashboard, subscribed, notify>>

\* 1. Active Students for this month
PassActive(i, ok) ==
    /\ i \in 1..Len(passes)
    /\ passes[i].pc = "active"
    /\ LET p == passes[i]
           rows == ActiveStudentsQuery(StudentRows, StartOfMonth(ClosureMonth(p)),
                                       EndOfMonth(ClosureMonth(p), tz))
       IN passes' = [passes EXCEPT ![i] =
               [p EXCEPT !.pc = "fees",
                         !.activeStudents = IF ok THEN Some(rows) ELSE Null,
                         !.studentTable = StudentRows,
                         !.failed = Failed(p, ok),
                         !.snaps = {store}]]
    /\ log' = ReadDone(ok)
    /\ UNCHANGED <<store, tz, today, session, selectedMonth, attendanceDate,
                   students, attendance, dashboard, subscribed, notify, origin>>

\* 2. Paid Fees for this month
PassFees(i, ok) ==
    /\ i \in 1..Len(passes)
    /\ passes[i].pc = "fees"
    /\ LET p == passes[i]
       IN passes' = [passes EXCEPT ![i] =
               [p EXCEPT !.pc = "left",
                         !.paidFees = IF ok THEN Some(WithStudent(
                                                        PaidFeesQuery(dbFees, ClosureMonth(p)),
                                                        dbStudents))
                                            ELSE Null,
                         !.feeTable = dbFees,
                         !.failed = Failed(p, ok)]]
    /\ log' = ReadDone(ok)
    /\ UNCHANGED <<store, tz, today, session, selectedMonth, attendanceDate,
                   students, attendance, dashboard, subscribed, notify, origin>>

\* 3. Left this month
PassLeft(i, ok) ==
    /\ i \in 1..Len(passes)
    /\ passes[i].pc = "left"
    /\ LET p == passes[i]
           rows == LeftStudentsQuery(StudentRows, StartOfMonth(ClosureMonth(p)),
                                     EndOfMonth(ClosureMonth(p), tz))
       IN passes' = [passes EXCEPT ![i] =
               [p EXCEPT !.pc = "monthly",
                         !.leftStudents = IF ok THEN Some(rows) ELSE Null,
                         !.leftTable = StudentRows,
                         !.failed = Failed(p, ok)]]
    /\ log' = ReadDone(ok)
    /\ UNCHANGED <<store, tz, today, session, selectedMonth, attendanceDate,
                   students, attendance, dashboard, subscribed, notify, origin>>

\* history: the dashboard the four dashboard reads yield when all of them are
\* served from the one store state st (a failed read stays failed)
Derive(st, m, z, leftOk, monthlyOk) ==
    LET rows == {st[1][i] : i \in 1..Len(st[1])}
        start == StartOfMonth(m)
        end == EndOfMonth(m, z)
    IN MakeDashboard(ActiveStudentsQuery(rows, start, end),
                     WithStudent(PaidFeesQuery(st[2], m), st[1]),
                     IF leftOk THEN Some(LeftStudentsQuery(rows, start, end)) ELSE Null,
                     IF monthlyOk THEN Some(MonthlyAttQuery(st[3], start, end)) ELSE Null)

\* the passes left in flight when pass i ends; when it ends by publishing, the
\* passes started before it are from then on superseded
Retire(i, publishes) ==
    [k \in 1..(Len(passes) - 1) |->
        IF k < i THEN [passes[k] EXCEPT !.stale = @ \/ publishes]
                 ELSE passes[k + 1]]

\* 4. Monthly Attendance, then if (activeStudents && paidFees) setDashboard({...})
PassMonthly(i, ok) ==
    /\ i \in 1..Len(passes)
    /\ passes[i].pc = "monthly"
    /\ LET p == passes[i]
           monthlyAtt == IF ok THEN Some(MonthlyAttQuery(dbAttendance,
                                                         StartOfMonth(ClosureMonth(p)),
                                                         EndOfMonth(ClosureMonth(p), tz)))
                               ELSE Null
           publishes == p.activeStudents # Null /\ p.paidFees # Null
       IN /\ passes' = Retire(i, publishes)
          /\ IF publishes
             THEN LET d == MakeDashboard(Get(p.activeStudents), Get(p.paidFees),
                                         p.leftStudents, monthlyAtt)
                  IN /\ dashboard' = Some(d)
                     /\ origin' = [origin EXCEPT
                            !.dashboard = p.id,
                            !.month = p.month,
                            !.activeStudents = Get(p.activeStudents),
                            !.studentTable = p.studentTable,
                            !.feeTable = p.feeTable,
                            !.leftTable = p.leftTable,
                            !.attTable = dbAttendance,
                            !.failed = Failed(p, ok),
                            !.afterError = p.afterError,
                            !.stale = p.stale,
                            !.snapshot = \E st \in p.snaps :
                                Derive(st, p.month, tz, p.leftStudents # Null, ok) = d]
             ELSE UNCHANGED <<dashboard, origin>>
    /\ log' = ReadDone(ok)
    /\ UNCHANGED <<store, tz, today, session, selectedMonth, attendanceDate,
                   students, attendance, subscribed, notify>>

\* ------------------------------------------------ triggers (useEffect, 252-276)
\* the tables the effect registers a channel for
ChannelTables == <<"students", "fees", "attendance">>

\* client.channel(...).on('postgres_changes', { table }, () => fetchData())
\* .subscribe(), three times: each callback holds the fetchData of the render
\* the effect ran in, with its session, selectedMonth and attendanceDate
Channels(sess, m, d) ==
    [k \in 1..Len(ChannelTables) |->
        [table |-> ChannelTables[k], session |-> sess, month |-> m, date |-> d]]

\* variant: an effect without a cleanup
RemoveChannelsNot(chs) == chs

\* return () => { client.removeChannel(...) x 3 }: the cleanup of the effect's
\* last run removes the channels that run registered
RemoveChannels(chs) == SubSeq(chs, 1, Len(chs) - Len(ChannelTables))

\* setSession(session) with a session: the effect runs fetchData and registers
\* the three channels
SignIn ==
    /\ ~session
    /\ session' = TRUE
    /\ subscribed' = subscribed \o Channels(TRUE, selectedMonth, attendanceDate)
    /\ passes' = FetchData(passes, TRUE, selectedMonth, attendanceDate)
    /\ UNCHANGED <<store, tz, today, selectedMonth, attendanceDate, students,
                   attendance, dashboard, notify, origin, log>>

\* auth.signOut(): setSession(null); the effect's cleanup removes the channels
SignOut ==
    /\ session
    /\ session' = FALSE
    /\ subscribed' = RemoveChannels(subscribed)
    /\ notify' = FALSE
    /\ UNCHANGED <<store, tz, today, selectedMonth, attendanceDate, students,
                   attendance, dashboard, passes, origin, log>>

\* onChange={(e) => setSelectedMonth(e.target.value)}: cleanup, then the effect
\* again with the new closure
SetSelectedMonth(m) ==
    /\ session
    /\ m # selectedMonth
    /\ selectedMonth' = m
    /\ notify' = FALSE
    /\ subscribed' = RemoveChannels(subscribed) \o Channels(session, m, attendanceDate)
    /\ passes' = FetchData(passes, session, m, attendanceDate)
    /\ UNCHANGED <<store, tz, today, session, attendanceDate, students,
                   attendance, dashboard, origin, log>>

\* onChange={(e) => setAttendanceDate(e.target.value)}
SetAttendanceDate(d) ==
    /\ session
    /\ d # attendanceDate
    /\ attendanceDate' = d
    /\ notify' = FALSE
    /\ subscribed' = RemoveChannels(subscribed) \o Channels(session, selectedMonth, d)
    /\ passes' = FetchData(passes, session, selectedMonth, d)
    /\ UNCHANGED <<store, tz, today, session, selectedMonth, students,
                   attendance, dashboard, origin, log>>

\* .on('postgres_changes', ..., () => fetchData())
Notification ==
    /\ notify
    /\ notify' = FALSE
    /\ \E k \in 1..Len(subscribed) :
          passes' = FetchData(passes, subscribed[k].session, subscribed[k].month,
                              subscribed[k].date)
    /\ UNCHANGED <<store, tz, today, session, selectedMonth, attendanceDate,
                   students, attendance, dashboard, subscribed, origin, log>>

\* onAuthStateChange((_event, session) => setSession(session)) with another
\* session object while signed in (158-160): cleanup, then the effect again
SessionChanged ==
    /\ session
    /\ notify' = FALSE
    /\ subscribed' = RemoveChannels(subscribed) \o Channels(session, selectedMonth,
                                                              attendanceDate)
    /\ passes' = FetchData(passes, session, selectedMonth, attendanceDate)
    /\ UNCHANGED <<store, tz, today, session, selectedMonth, attendanceDate, students,
                   attendance, dashboard, origin, log>>

\* the next calendar day begins
Tick ==
    /\ today + 1 \in Dates
    /\ today' = today + 1
    /\ UNCHANGED <<store, tz, session, selectedMonth, attendanceDate, students,
                   attendance, dashboard, subscribed, notify, passes, origin, log>>

\* ------------------------------------------------------------ user actions
\* what the realtime service does on a table change
Notify == subscribed # <<>>

ActiveShown == {s \in students : s.status = "Active"}

\* filteredStudents (278-284) for a search term
FilteredStudents(term) ==
    {s \in students :
        \/ Includes(ToLowerCase(s.full_name), ToLowerCase(term))
        \/ Includes(s.parent_phone, term)
        \/ Includes(ToLowerCase(s.class_grade), ToLowerCase(term))}

NoStats == [present |-> 0, absent |-> 0, leave |-> 0, holiday |-> 0]

\* if (record.status === 'Present') summary[record.student_id].present++; ...
Counted(stats, status) ==
    CASE status = "Present" -> [stats EXCEPT !.present = @ + 1]
      [] status = "Absent"  -> [stats EXCEPT !.absent = @ + 1]
      [] status = "Leave"   -> [stats EXCEPT !.leave = @ + 1]
      [] status = "Holiday" -> [stats EXCEPT !.holiday = @ + 1]
      [] OTHER -> stats

RECURSIVE SummaryOf(_)
\* dashboard.monthlyAttendance.forEach(record => ...): the counters by student id
SummaryOf(records) ==
    IF records = {} THEN [id \in {} |-> NoStats]
    ELSE LET r == CHOOSE r \in records : TRUE
             rest == SummaryOf(records \ {r})
             prev == IF r.student_id \in DOMAIN rest THEN rest[r.student_id] ELSE NoStats
         IN [id \in DOMAIN rest \cup {r.student_id} |->
                IF id = r.student_id THEN Counted(prev, r.status) ELSE rest[id]]

\* variant: a row for every student of the list, whatever the status
AttendanceSummaryOfAll(filter) ==
    IF dashboard = Null THEN {}
    ELSE LET summary == SummaryOf(Get(dashboard).monthlyAttendance)
         IN {[student |-> s,
              stats |-> IF s.id \in DOMAIN summary THEN summary[s.id] ELSE NoStats] :
                s \in {s \in students : filter = <<>> \/ s.class_grade = filter}}

\* attendanceSummary (286-308) for a report filter
AttendanceSummary(filter) ==
    IF dashboard = Null THEN {}
    ELSE LET summary == SummaryOf(Get(dashboard).monthlyAttendance)
         IN {[student |-> s,
              stats |-> IF s.id \in DOMAIN summary THEN summary[s.id] ELSE NoStats] :
                s \in {s \in students : /\ s.status = "Active"
                                        /\ filter = <<>> \/ s.class_grade = filter}}

\* the fees table of the reports view (1073-1076) for a report filter
ReportFeeRows(filter) ==
    IF dashboard = Null THEN <<>>
    ELSE SelectSeq(Get(dashboard).paidFees,
                   LAMBDA f : filter = <<>> \/ f.student.class_grade = filter)

\* variant: the export of every fee row, whatever the filter
ExportFeesUnfiltered(filter) ==
    IF dashboard = Null THEN Null
    ELSE LET rows == Get(dashboard).paidFees
         IN Some([i \in 1..Len(rows) |->
                    <<rows[i].student.full_name, rows[i].amount, rows[i].payment_mode>>])

\* exportCSV, reportType 'fees' (411-424): the data rows of the file for a report
\* filter, Null when nothing is exported
ExportFees(filter) ==
    IF dashboard = Null THEN Null
    ELSE LET rows == SelectSeq(Get(dashboard).paidFees,
                               LAMBDA f : filter = <<>> \/ f.student.class_grade = filter)
         IN Some([i \in 1..Len(rows) |->
                    <<rows[i].student.full_name, rows[i].amount, rows[i].payment_mode>>])

\* exportCSV, reportType 'attendance' (425-436): the data rows of the file
ExportAttendance(filter) ==
    {<<row.student.full_name, row.student.class_grade, row.stats.present,
       row.stats.absent, row.stats.leave, row.stats.holiday>> :
        row \in AttendanceSummary(filter)}

\* handleAddStudent: insert; on error alert, else fetchData()
HandleAddStudent(class, adm, ok) ==
    /\ session
    /\ IF ok
       THEN /\ dbStudents' = Append(dbStudents,
                    [ id             |-> Len(dbStudents) + 1,
                      full_name      |-> NameOf(Len(dbStudents) + 1),
                      class_grade    |-> class,
                      parent_phone   |-> PhoneOf(Len(dbStudents) + 1),
                      admission_date |-> adm,
                      status         |-> "Active",
                      leaving_date   |-> Null ])
            /\ notify' = (notify \/ Notify)
            /\ passes' = FetchData(Observe(passes, <<dbStudents', dbFees, dbAttendance>>),
                                   session, selectedMonth, attendanceDate)
       ELSE UNCHANGED <<dbStudents, notify, passes>>
    /\ log' = Written("addStudent", ok, ~ok, {}, <<>>)
    /\ UNCHANGED <<dbFees, dbAttendance, tz, today, session, selectedMonth,
                   attendanceDate, students, attendance, dashboard, subscribed, origin>>

\* the badge of a student's card in the fees view (973, 984-986):
\* const isPaid = dashboard?.paidFees.find(f => f.student_id === s.id)
FeeBadge(s) ==
    IF \E d \in dashboard : s.id \in PaidStudentIds(d.paidFees) THEN "Paid" ELSE "Unpaid"

\* the fees view offers Record Fee for an Active student of the published list
\* that has no row in dashboard.paidFees (973-1004)
CanRecordFee(s) ==
    /\ s \in ActiveShown
    /\ \A d \in dashboard : s.id \notin PaidStudentIds(d.paidFees)

\* handleRecordFee: insert; on error alert, else fetchData()
HandleRecordFee(s, month, amount, mode, ok) ==
    /\ session
    /\ CanRecordFee(s)
    /\ IF ok
       THEN /\ dbFees' = Append(dbFees,
                    [ student_id   |-> s.id,
                      fee_month    |-> month,
                      amount       |-> amount,
                      payment_mode |-> mode ])
            /\ notify' = (notify \/ Notify)
            /\ passes' = FetchData(Observe(passes, <<dbStudents, dbFees', dbAttendance>>),
                                   session, selectedMonth, attendanceDate)
       ELSE UNCHANGED <<dbFees, notify, passes>>
    /\ log' = Written("recordFee", ok, ~ok, {}, <<>>)
    /\ UNCHANGED <<dbStudents, dbAttendance, tz, today, session, selectedMonth,
                   attendanceDate, students, attendance, dashboard, subscribed, origin>>

\* the attendance row of a student's card (702-703):
\* const record = attendance.find(a => a.student_id === s.id); the statuses it
\* can show (none without a record)
ShownStatus(id) == {a.status : a \in {a \in attendance : a.student_id = id}}

\* variant: a plain insert, without the conflict target
UpsertAsInsert(att, rows) == att \cup rows

\* upsert(rows, { onConflict: 'student_id,attendance_date' })
Upsert(att, rows) ==
    {a \in att : \A r \in rows : ~(r.student_id = a.student_id
                                    /\ r.attendance_date = a.attendance_date)} \cup rows

\* markAttendance: upsert; on error alert, else fetchData()
MarkAttendance(s, status, ok) ==
    /\ session
    /\ s \in ActiveShown
    /\ LET row == [student_id |-> s.id, attendance_date |-> attendanceDate,
                   status |-> status]
       IN /\ IF ok
             THEN /\ dbAttendance' = Upsert(dbAttendance, {row})
                  /\ notify' = (notify \/ Notify)
                  /\ passes' = FetchData(Observe(passes, <<dbStudents, dbFees, dbAttendance'>>),
                                         session, selectedMonth, attendanceDate)
             ELSE UNCHANGED <<dbAttendance, notify, passes>>
          /\ log' = Written("markAttendance", ok, ~ok, {row}, <<>>)
    /\ UNCHANGED <<dbStudents, dbFees, tz, today, session, selectedMonth,
                   attendanceDate, students, attendance, dashboard, subscribed, origin>>

\* variant: a row for every student of the filtered list, whatever the status
MarkAllRowsOfAll(status, term) ==
    {[student_id |-> s.id, attendance_date |-> attendanceDate, status |-> status] :
        s \in FilteredStudents(term)}

\* const active = filteredStudents.filter(s => s.status === 'Active');
\* const upserts = active.map(s => ({...}))
MarkAllRows(status, term) ==
    {[student_id |-> s.id, attendance_date |-> attendanceDate, status |-> status] :
        s \in {s \in FilteredStudents(term) : s.status = "Active"}}

\* Mark All Present / Mark All Holiday (647-677): one upsert of a row per Active
\* student of the filtered list, its result ignored, then fetchData().  The store
\* applies the rows of `applied`: all of them, or fewer when the batch fails.
MarkAll(status, term, applied) ==
    /\ session
    /\ status \in {"Present", "Holiday"}
    /\ applied \in SUBSET MarkAllRows(status, term)
    /\ dbAttendance' = Upsert(dbAttendance, applied)
    /\ notify' = (notify \/ (Notify /\ applied # {}))
    /\ passes' = FetchData(Observe(passes, <<dbStudents, dbFees, dbAttendance'>>),
                           session, selectedMonth, attendanceDate)
    /\ log' = Written("markAll", applied = MarkAllRows(status, term), FALSE,
                      MarkAllRows(status, term), term)
    /\ UNCHANGED <<dbStudents, dbFees, tz, today, session, selectedMonth,
                   attendanceDate, students, attendance, dashboard, subscribed, origin>>

\* variant: a student who has left is taken back
MarkedLeftOrBack(row) ==
    IF row.status = "Left"
    THEN [row EXCEPT !.status = "Active", !.leaving_date = Null]
    ELSE [row EXCEPT !.status = "Left", !.leaving_date = Some(today)]

\* .update({ status: 'Left', leaving_date: new Date().toISOString().split('T')[0] })
MarkedLeft(row) == [row EXCEPT !.status = "Left", !.leaving_date = Some(today)]

\* markAsLeft: update ... set status = 'Left', leaving_date = today where id = id;
\* the result is ignored and fetchData() is not called.  The students view
\* offers it for every student of the published list, whatever the status.
MarkAsLeft(s, ok) ==
    /\ session
    /\ s \in students
    /\ IF ok
       THEN /\ dbStudents' = [dbStudents EXCEPT ![s.id] = MarkedLeft(@)]
            /\ notify' = (notify \/ Notify)
            /\ passes' = Observe(passes, <<dbStudents', dbFees, dbAttendance>>)
       ELSE UNCHANGED <<dbStudents, notify, passes>>
    /\ log' = Written("markAsLeft", ok, FALSE, {}, <<>>)
    /\ UNCHANGED <<dbFees, dbAttendance, tz, today, session, selectedMonth,
                   attendanceDate, students, attendance, dashboard, subscribed, origin>>

\* -------------------------------------------------------------------- system
\* rows the students table can hold: handleAddStudent inserts an Active row with
\* any admission date, markAsLeft stamps it Left with the day it is applied
StudentRecords(i) ==
    [id : {i}, full_name : {NameOf(i)}, class_grade : Classes, parent_phone : {PhoneOf(i)},
     admission_date : Dates, status : {"Active"}, leaving_date : {Null}]
      \cup [id : {i}, full_name : {NameOf(i)}, class_grade : Classes,
            parent_phone : {PhoneOf(i)}, admission_date : Dates, status : {"Left"},
            leaving_date : {Some(d) : d \in Dates}]

StudentTables(n) ==
    {t \in UNION {[1..k -> UNION {StudentRecords(i) : i \in 1..n}] : k \in 0..n} :
        \A i \in DOMAIN t : t[i].id = i}

\* the tables whose students are all of the first class
OneClass(tables) == {t \in tables : \A i \in DOMAIN t : t[i].class_grade = <<"9">>}

\* the model's bounds, as guards on the triggers
Room == Len(passes) < MaxPasses
Idle == passes = <<>>
AttendanceRoom(rows) == Cardinality(Upsert(dbAttendance, rows)) <= MaxAttendance

\* The application with overlapping passes: the store holds one Active student,
\* the instructor marks students Left and changes the month while passes are in
\* flight; the store answers every read.
Init ==
    /\ dbStudents \in {t \in OneClass(StudentTables(1)) :
          Len(t) = 1 /\ t[1].status = "Active" /\ t[1].admission_date = 1}
    /\ dbFees = <<>>
    /\ dbAttendance = {}
    /\ tz = 0
    /\ today \in {d \in Dates : MonthOf(d) = 1}
    /\ InitClient

Next ==
    \/ Room /\ SignIn
    \/ \E m \in Months : Room /\ SetSelectedMonth(m)
    \/ Room /\ Notification
    \/ \E s \in students : MarkAsLeft(s, TRUE)
    \/ \E i \in 1..MaxPasses : PassStudents(i, TRUE)
    \/ \E i \in 1..MaxPasses : PassAttendance(i, TRUE)
    \/ \E i \in 1..MaxPasses : PassActive(i, TRUE)
    \/ \E i \in 1..MaxPasses : PassFees(i, TRUE)
    \/ \E i \in 1..MaxPasses : PassLeft(i, TRUE)
    \/ \E i \in 1..MaxPasses : PassMonthly(i, TRUE)

Spec == Init /\ [][Next]_vars

\* The active-set resolver over every students table of up to MaxStudents rows,
\* every time zone and every month: one pass at a time, the active-students read
\* may fail.
InitActive ==
    /\ dbStudents \in OneClass(StudentTables(MaxStudents))
    /\ dbFees = <<>>
    /\ dbAttendance = {}
    /\ tz \in TimeZones
    /\ today \in {FirstDay(m) : m \in Months}
    /\ InitClient

NextActive ==
    \/ Idle /\ SignIn
    \/ \E m \in Months : Idle /\ SetSelectedMonth(m)
    \/ PassStudents(1, TRUE)
    \/ PassAttendance(1, TRUE)
    \/ \E ok \in BOOLEAN : PassActive(1, ok)
    \/ PassFees(1, TRUE)
    \/ PassLeft(1, TRUE)
    \/ PassMonthly(1, TRUE)

SpecActive == InitActive /\ [][NextActive]_vars

\* Fee reconciliation: students admitted on the first day of a month, those who
\* left having left on the last day of that month; the instructor records up to
\* MaxFees fees for any month, amount and mode, one pass at a time.
FeeStudents(n) ==
    {t \in OneClass(StudentTables(n)) : \A i \in DOMAIN t :
        \E m \in Months : /\ t[i].admission_date = FirstDay(m)
                          /\ t[i].leaving_date \in {Null, Some(LastDay(m))}}

InitFees ==
    /\ dbStudents \in FeeStudents(MaxStudents)
    /\ dbFees = <<>>
    /\ dbAttendance = {}
    /\ tz = 0
    /\ today = 1
    /\ InitClient

NextFees ==
    \/ Idle /\ SignIn
    \/ \E m \in Months : Idle /\ SetSelectedMonth(m)
    \/ Idle /\ Notification
    \/ \E s \in students, month \in Months, amount \in Amounts, mode \in PaymentModes,
          ok \in BOOLEAN :
          Idle /\ Len(dbFees) < MaxFees /\ HandleRecordFee(s, month, amount, mode, ok)
    \/ PassStudents(1, TRUE)
    \/ PassAttendance(1, TRUE)
    \/ PassActive(1, TRUE)
    \/ PassFees(1, TRUE)
    \/ PassLeft(1, TRUE)
    \/ PassMonthly(1, TRUE)

SpecFees == InitFees /\ [][NextFees]_vars

\* Attendance: up to MaxStudents Active students of any class, admitted on the
\* first day, the first month selected; the instructor marks attendance for
\* dates of the month and the day after it, one student or all of a class, and
\* marks students Left, one pass at a time; the attendance table holds up to
\* MaxAttendance rows.
AttendanceDates == 1..(DaysPerMonth + 1)

InitAttendance ==
    /\ dbStudents \in {t \in StudentTables(MaxStudents) :
          /\ Len(t) >= 1
          /\ t[1].class_grade = <<"9">>
          /\ \A i \in DOMAIN t : t[i].status = "Active" /\ t[i].admission_date = 1}
    /\ dbFees = <<>>
    /\ dbAttendance = {}
    /\ tz = 0
    /\ today = 1
    /\ InitClient

NextAttendance ==
    \/ Idle /\ SignIn
    \/ \E d \in AttendanceDates : Idle /\ SetAttendanceDate(d)
    \/ Idle /\ Notification
    \/ \E s \in students, status \in AttendanceStatuses :
          /\ Idle
          /\ AttendanceRoom({[student_id |-> s.id, attendance_date |-> attendanceDate,
                              status |-> status]})
          /\ MarkAttendance(s, status, TRUE)
    \/ \E status \in {"Present", "Holiday"}, term \in SearchTerms :
          /\ Idle
          /\ AttendanceRoom(MarkAllRows(status, term))
          /\ MarkAll(status, term, MarkAllRows(status, term))
    \/ \E s \in students : Idle /\ MarkAsLeft(s, TRUE)
    \/ PassStudents(1, TRUE)
    \/ PassAttendance(1, TRUE)
    \/ PassActive(1, TRUE)
    \/ PassFees(1, TRUE)
    \/ PassLeft(1, TRUE)
    \/ PassMonthly(1, TRUE)

SpecAttendance == InitAttendance /\ [][NextAttendance]_vars

\* Errors: one Active student; every store read may fail, an attendance mark
\* may be applied or rejected, a mark-all batch (none of it applied), markAsLeft,
\* an admission and a fee are rejected; one pass at a time.
InitErrors ==
    /\ dbStudents \in {t \in OneClass(StudentTables(1)) :
          Len(t) = 1 /\ t[1].status = "Active" /\ t[1].admission_date = 1}
    /\ dbFees = <<>>
    /\ dbAttendance = {}
    /\ tz = 0
    /\ today = 1
    /\ InitClient

NextErrors ==
    \/ Idle /\ SignIn
    \/ \E m \in Months : Idle /\ SetSelectedMonth(m)
    \/ Idle /\ Notification
    \/ Idle /\ HandleAddStudent(<<"9">>, today, FALSE)
    \/ \E s \in students : Idle /\ HandleRecordFee(s, selectedMonth, 3, "Cash", FALSE)
    \/ \E s \in students, ok \in BOOLEAN :
          /\ Idle
          /\ AttendanceRoom({[student_id |-> s.id, attendance_date |-> attendanceDate,
                              status |-> "Absent"]})
          /\ MarkAttendance(s, "Absent", ok)
    \/ Idle /\ MarkAll("Present", <<>>, {})
    \/ \E s \in students : Idle /\ MarkAsLeft(s, FALSE)
    \/ \E ok \in BOOLEAN : PassStudents(1, ok)
    \/ \E ok \in BOOLEAN : PassAttendance(1, ok)
    \/ \E ok \in BOOLEAN : PassActive(1, ok)
    \/ \E ok \in BOOLEAN : PassFees(1, ok)
    \/ \E ok \in BOOLEAN : PassLeft(1, ok)
    \/ \E ok \in BOOLEAN : PassMonthly(1, ok)

SpecErrors == InitErrors /\ [][NextErrors]_vars

\* Records: the store starts empty; the instructor admits up to MaxStudents
\* students of one class with any admission date, marks students of the list
\* Left (again, too), records up to MaxFees cash fees for any month, and the
\* days pass; one pass at a time.
InitRecords ==
    /\ dbStudents = <<>>
    /\ dbFees = <<>>
    /\ dbAttendance = {}
    /\ tz = 0
    /\ today = 1
    /\ InitClient

NextRecords ==
    \/ Idle /\ SignIn
    \/ Idle /\ Notification
    \/ Idle /\ Tick
    \/ \E adm \in Dates :
          Idle /\ Len(dbStudents) < MaxStudents /\ HandleAddStudent(<<"9">>, adm, TRUE)
    \/ \E s \in students, month \in Months :
          Idle /\ Len(dbFees) < MaxFees /\ HandleRecordFee(s, month, 3, "Cash", TRUE)
    \/ \E s \in students : Idle /\ MarkAsLeft(s, TRUE)
    \/ PassStudents(1, TRUE)
    \/ PassAttendance(1, TRUE)
    \/ PassActive(1, TRUE)
    \/ PassFees(1, TRUE)
    \/ PassLeft(1, TRUE)
    \/ PassMonthly(1, TRUE)

SpecRecords == InitRecords /\ [][NextRecords]_vars

\* Reports: two Active students, one of each class; the instructor records up to
\* MaxFees fees for the selected month, marks attendance and marks students
\* Left, one pass at a time.
InitReports ==
    /\ dbStudents \in {t \in StudentTables(2) :
          /\ Len(t) = 2
          /\ t[1].class_grade # t[2].class_grade
          /\ \A i \in DOMAIN t : t[i].status = "Active" /\ t[i].admission_date = 1}
    /\ dbFees = <<>>
    /\ dbAttendance = {}
    /\ tz = 0
    /\ today = 1
    /\ InitClient

NextReports ==
    \/ Idle /\ SignIn
    \/ Idle /\ Notification
    \/ \E s \in students, amount \in Amounts, mode \in PaymentModes :
          Idle /\ Len(dbFees) < MaxFees /\ HandleRecordFee(s, selectedMonth, amount, mode, TRUE)
    \/ \E s \in students, status \in {"Present", "Absent"} :
          /\ Idle
          /\ AttendanceRoom({[student_id |-> s.id, attendance_date |-> attendanceDate,
                              status |-> status]})
          /\ MarkAttendance(s, status, TRUE)
    \/ \E s \in students : Idle /\ MarkAsLeft(s, TRUE)
    \/ PassStudents(1, TRUE)
    \/ PassAttendance(1, TRUE)
    \/ PassActive(1, TRUE)
    \/ PassFees(1, TRUE)
    \/ PassLeft(1, TRUE)
    \/ PassMonthly(1, TRUE)

SpecReports == InitReports /\ [][NextReports]_vars

\* One mark: one Active student; the instructor signs in and changes the
\* attendance date, passes overlapping, then marks the student's attendance for
\* the selected date once; after the mark nothing happens but its own
\* notification and the passes in flight.
InitMark ==
    /\ dbStudents \in {t \in OneClass(StudentTables(1)) :
          Len(t) = 1 /\ t[1].status = "Active" /\ t[1].admission_date = 1}
    /\ dbFees = <<>>
    /\ dbAttendance = {}
    /\ tz = 0
    /\ today = 1
    /\ InitClient

NextMark ==
    \/ Room /\ SignIn
    \/ \E d \in AttendanceDates : Room /\ dbAttendance = {} /\ SetAttendanceDate(d)
    \/ \E s \in students, status \in AttendanceStatuses :
          Room /\ dbAttendance = {} /\ MarkAttendance(s, status, TRUE)
    \/ Room /\ Notification
    \/ \E i \in 1..MaxPasses : PassStudents(i, TRUE)
    \/ \E i \in 1..MaxPasses : PassAttendance(i, TRUE)
    \/ \E i \in 1..MaxPasses : PassActive(i, TRUE)
    \/ \E i \in 1..MaxPasses : PassFees(i, TRUE)
    \/ \E i \in 1..MaxPasses : PassLeft(i, TRUE)
    \/ \E i \in 1..MaxPasses : PassMonthly(i, TRUE)

SpecMark == InitMark /\ [][NextMark]_vars

\* Sessions: one Active student; the instructor signs in and out, the session
\* object is replaced, the month and the attendance date change, a student is
\* marked Left and the notification arrives; a trigger waits for the pass in
\* flight, signing out does not.
InitSession ==
    /\ dbStudents \in {t \in OneClass(StudentTables(1)) :
          Len(t) = 1 /\ t[1].status = "Active" /\ t[1].admission_date = 1}
    /\ dbFees = <<>>
    /\ dbAttendance = {}
    /\ tz = 0
    /\ today = 1
    /\ InitClient

NextSession ==
    \/ Idle /\ SignIn
    \/ SignOut
    \/ Idle /\ Notification
    \/ Idle /\ SessionChanged
    \/ \E m \in Months : Idle /\ SetSelectedMonth(m)
    \/ \E d \in AttendanceDates : Idle /\ SetAttendanceDate(d)
    \/ \E s \in students : Idle /\ MarkAsLeft(s, TRUE)
    \/ PassStudents(1, TRUE)
    \/ PassAttendance(1, TRUE)
    \/ PassActive(1, TRUE)
    \/ PassFees(1, TRUE)
    \/ PassLeft(1, TRUE)
    \/ PassMonthly(1, TRUE)

SpecSession == InitSession /\ [][NextSession]_vars

\* ------------------------------------------------------------------ claims
\* the rows of the fees table t for month m, and the students they name
RowsOfMonth(t, m) == {i \in 1..Len(t) : t[i].fee_month = m}
PayersOfMonth(t, m) == {t[i].student_id : i \in RowsOfMonth(t, m)}

RECURSIVE SumRows(_, _)
SumRows(t, rows) ==
    IF rows = {} THEN 0
    ELSE LET i == CHOOSE i \in rows : TRUE
         IN t[i].amount + SumRows(t, rows \ {i})

\* C1: the active set a pass obtains holds a student of the snapshot exactly when
\* admission_date <= endOfMonth and (status = Active or leaving_date >=
\* startOfMonth), for the bounds the pass computed; activeCount is its size.
ActiveSetRule ==
    dashboard # Null =>
        /\ origin.activeStudents \subseteq origin.studentTable
        /\ \A s \in origin.studentTable :
              s \in origin.activeStudents <=>
                 /\ s.admission_date <= EndOfMonth(origin.month, tz)
                 /\ \/ s.status = "Active"
                    \/ /\ s.leaving_date # Null
                       /\ Get(s.leaving_date) >= StartOfMonth(origin.month)
        /\ Get(dashboard).activeCount = Cardinality(origin.activeStudents)

\* a dashboard whose active set holds a Left student and lacks an Active one, who
\* was admitted on the day after the computed end of the month
ActiveSetRuleWitness ==
    /\ dashboard # Null
    /\ \E s, t \in origin.studentTable :
          /\ s \in origin.activeStudents
          /\ s.status = "Left"
          /\ t \notin origin.activeStudents
          /\ t.status = "Active"
          /\ t.admission_date = EndOfMonth(origin.month, tz) + 1

\* C2: once no pass is in flight, the published dashboard is not that of a pass
\* which started before a pass that had already published (last writer wins by
\* start order).
LaterStartedPassWins == Idle => ~origin.stale

\* C3: at most one pass at a time is between its first store read and its end:
\* the reads and publications of two fetchData executions never interleave.
PassesDoNotInterleave ==
    Cardinality({i \in 1..Len(passes) : passes[i].pc # "students"}) <= 1

\* C4: the published students, attendance and dashboard all come from one and
\* the same pass, and that pass has completed.
PublishedFromOnePass ==
    /\ origin.students = origin.attendance
    /\ origin.attendance = origin.dashboard
    /\ \A i \in 1..Len(passes) : passes[i].id # origin.dashboard

\* C5: every published dashboard is the derivation of one store state that
\* existed while its pass read, also when the store changed between the reads.
DashboardFromOneSnapshot == origin.snapshot

\* C6: unpaidStudents is exactly the set of active-set students with no fee row
\* for the period; a student with one or more rows is never in it.
UnpaidAreTheActiveWithoutRows ==
    dashboard # Null =>
        /\ Get(dashboard).unpaidStudents \subseteq origin.activeStudents
        /\ \A s \in origin.activeStudents :
              s \in Get(dashboard).unpaidStudents
                 <=> s.id \notin PayersOfMonth(origin.feeTable, origin.month)

\* a dashboard for which an active student has two fee rows, another has none
UnpaidWitness ==
    /\ dashboard # Null
    /\ \E s, t \in origin.activeStudents :
          /\ Cardinality({i \in RowsOfMonth(origin.feeTable, origin.month) :
                            origin.feeTable[i].student_id = s.id}) = 2
          /\ s \notin Get(dashboard).unpaidStudents
          /\ t \in Get(dashboard).unpaidStudents

\* C7: paidCount is the number of distinct students with at least one fee row
\* for the period.
PaidCountIsDistinctStudents ==
    dashboard # Null =>
        Get(dashboard).paidCount
            = Cardinality(PayersOfMonth(origin.feeTable, origin.month))

\* C8 as stated: unpaidCount = |activeSet| - |{students with a fee row for the
\* period}|, also when a payer is outside the active set.
UnpaidCountByAllPayers ==
    dashboard # Null =>
        Get(dashboard).unpaidCount
            = Cardinality(origin.activeStudents)
                - Cardinality(PayersOfMonth(origin.feeTable, origin.month))

\* C8 amended: unpaidCount = |activeSet| - |{active-set students with a fee row
\* for the period}|.
UnpaidCountByActivePayers ==
    dashboard # Null =>
        Get(dashboard).unpaidCount
            = Cardinality(origin.activeStudents)
                - Cardinality({s \in origin.activeStudents :
                                 s.id \in PayersOfMonth(origin.feeTable, origin.month)})

\* a dashboard for a period with a fee row of a student outside the active set,
\* and with an active student who paid
UnpaidCountWitness ==
    /\ dashboard # Null
    /\ \E id \in PayersOfMonth(origin.feeTable, origin.month) :
          \A s \in origin.activeStudents : s.id # id
    /\ \E s \in origin.activeStudents :
          s.id \in PayersOfMonth(origin.feeTable, origin.month)

\* C9: cashCollected + onlineCollected = totalCollected.
CashPlusOnlineIsTotal ==
    dashboard # Null =>
        Get(dashboard).cashCollected + Get(dashboard).onlineCollected
            = Get(dashboard).totalCollected

\* a dashboard over a Cash row and an Online row inserted by handleRecordFee
CashPlusOnlineWitness ==
    /\ dashboard # Null
    /\ Get(dashboard).cashCollected > 0
    /\ Get(dashboard).onlineCollected > 0
    /\ Len(Get(dashboard).paidFees) = 2

\* C10: totalCollected is the sum of the amounts of all rows of the fees table
\* for the period, every row of a student with several, payers outside the
\* active set included.
TotalIsSumOfAllRows ==
    dashboard # Null =>
        Get(dashboard).totalCollected
            = SumRows(origin.feeTable, RowsOfMonth(origin.feeTable, origin.month))

\* a dashboard whose total is 8, from rows of 3 and 5 of one student, who is
\* outside the active set
TotalWitness ==
    /\ dashboard # Null
    /\ Get(dashboard).totalCollected = 8
    /\ \E i, k \in RowsOfMonth(origin.feeTable, origin.month) :
          /\ i # k
          /\ origin.feeTable[i].student_id = origin.feeTable[k].student_id
          /\ \A s \in origin.activeStudents : s.id # origin.feeTable[i].student_id

\* C11: leftThisMonth is the number of students of the table with status Left
\* and startOfMonth <= leaving_date <= endOfMonth, whether or not they are in
\* the active set; 0 when there is none.
LeftThisMonthRule ==
    dashboard # Null =>
        Get(dashboard).leftThisMonth
            = Cardinality({s \in origin.leftTable :
                  /\ s.status = "Left"
                  /\ s.leaving_date # Null
                  /\ StartOfMonth(origin.month) <= Get(s.leaving_date)
                  /\ Get(s.leaving_date) <= EndOfMonth(origin.month, tz)})

\* a dashboard that counts one student as left who is outside its active set
\* (admitted after the month), beside a student who left before the month
LeftThisMonthWitness ==
    /\ dashboard # Null
    /\ Get(dashboard).leftThisMonth = 1
    /\ \E s, t \in origin.leftTable :
          /\ s.status = "Left"
          /\ Get(s.leaving_date) >= StartOfMonth(origin.month)
          /\ Get(s.leaving_date) <= EndOfMonth(origin.month, tz)
          /\ s \notin origin.activeStudents
          /\ t.status = "Left"
          /\ Get(t.leaving_date) < StartOfMonth(origin.month)

\* the attendance records of the student with this id that the store held for
\* the dashboard's month when the pass read them
RecordsInMonth(id) ==
    {a \in origin.attTable :
        a.student_id = id /\ MonthOf(a.attendance_date) = origin.month}

SummaryRowsAreTheActive ==
    dashboard # Null =>
        \A filter \in SearchTerms :
            LET rows == AttendanceSummary(filter)
            IN /\ \A s \in students :
                     Cardinality({r \in rows : r.student.id = s.id})
                        = IF s.status = "Active" /\ (filter = <<>> \/ s.class_grade = filter)
                          THEN 1 ELSE 0
               /\ \A r \in rows : r.student \in students /\ r.student.status # "Left"

\* a summary with a row for an Active student and none for a Left student who is
\* in the month's active set and has an attendance record in the month
SummaryRowsWitness ==
    /\ dashboard # Null
    /\ \E s \in students :
          /\ s.status = "Left"
          /\ \E t \in origin.activeStudents : t.id = s.id
          /\ \E a \in Get(dashboard).monthlyAttendance : a.student_id = s.id
          /\ \A r \in AttendanceSummary(<<>>) : r.student.id # s.id
    /\ AttendanceSummary(<<>>) # {}

SameKey(a, b) == a.student_id = b.student_id /\ a.attendance_date = b.attendance_date

\* C14: the attendance table holds at most one record per (student_id,
\* attendance_date); after markAttendance the record of that key is the one
\* marked and every other record is as before, so the same mark applied again
\* leaves the table as it was and a different status replaces the earlier one.
OneRecordPerStudentAndDate ==
    /\ \A a, b \in dbAttendance : SameKey(a, b) => a = b
    /\ log.op = "markAttendance" /\ log.ok =>
          \A r \in log.rows :
             /\ r \in dbAttendance
             /\ \A a \in dbAttendance : a # r => a \in log.before /\ ~SameKey(a, r)
             /\ \A a \in log.before : ~SameKey(a, r) => a \in dbAttendance
             /\ r \in log.before => dbAttendance = log.before

\* the same mark applied a second time, beside a record of another key
SameMarkTwiceWitness ==
    /\ log.op = "markAttendance"
    /\ log.ok
    /\ log.rows \subseteq log.before
    /\ dbAttendance = log.before
    /\ Cardinality(dbAttendance) = 2

\* C15: after a successful mark-all on the selected date every Active student
\* of the filtered list has exactly one record for the date, with the status
\* marked, and the records of other students and other dates are as before.
MarkAllMarksTheActiveOfTheList ==
    log.op = "markAll" /\ log.ok =>
        LET ids == {s.id : s \in {s \in FilteredStudents(log.term) : s.status = "Active"}}
            Marked(a) == a.attendance_date = attendanceDate /\ a.student_id \in ids
        IN /\ \E status \in {"Present", "Holiday"} : \A id \in ids :
                 {a \in dbAttendance : a.student_id = id /\ a.attendance_date = attendanceDate}
                    = {[student_id |-> id, attendance_date |-> attendanceDate,
                        status |-> status]}
           /\ \A a \in dbAttendance : ~Marked(a) => a \in log.before
           /\ \A a \in log.before : ~Marked(a) => a \in dbAttendance

\* mark all present for one class: a student of the class had a Holiday mark
\* for the date and now has a Present one, the mark of a student of another
\* class for the same date is as before
MarkAllWitness ==
    /\ log.op = "markAll"
    /\ log.ok
    /\ log.term # <<>>
    /\ \E a \in log.before, b \in dbAttendance :
          /\ SameKey(a, b)
          /\ a.status = "Holiday"
          /\ b.status = "Present"
          /\ b \in log.rows
    /\ \E a \in log.before :
          /\ a \in dbAttendance
          /\ a.attendance_date = attendanceDate
          /\ a \notin log.rows

\* C16: a mark-all batch that the store did not apply in full is surfaced to
\* the user as an error.
FailedMarkAllIsSurfaced ==
    log.op = "markAll" /\ ~log.ok => log.alerted

\* C17: a pass with a failed read publishes nothing: the published dashboard is
\* never that of a pass one of whose reads failed.
FailedPassPublishesNothing ==
    dashboard # Null => origin.failed = {}

\* C18: every rejected single-record write (markAttendance, handleAddStudent,
\* handleRecordFee, markAsLeft) is surfaced to the user as an error.
RejectedWriteIsSurfaced ==
    log.op \in {"markAttendance", "addStudent", "recordFee", "markAsLeft"} /\ ~log.ok
        => log.alerted

\* the published dashboard is the derivation of the store's current contents
\* for the selected month, the published attendance that of the selected date
Fresh ==
    /\ dashboard = Some(Derive(store, selectedMonth, tz, TRUE, TRUE))
    /\ attendance = AttendanceQuery(dbAttendance, attendanceDate)

\* C19: with a session, once no pass is in flight and no notification is
\* pending (every trigger has been served and nothing else will happen), the
\* published state is that of the store for the selected month and date.
FreshWhenQuiet ==
    session /\ Idle /\ ~notify => Fresh

\* the step starts a pass for the selected month and date
StartsPass ==
    /\ Len(passes') = Len(passes) + 1
    /\ passes'[Len(passes')].pc = "students"
    /\ passes'[Len(passes')].month = selectedMonth'
    /\ passes'[Len(passes')].date = attendanceDate'

\* C20: whatever errors have occurred, with a session every month change, date
\* change and notification can be taken and starts a pass, every applied write
\* of a handler that refreshes starts a pass, and a pass whose active-students
\* and fees reads are answered publishes its dashboard.
LoopAcceptsNextTrigger ==
    /\ [](session => /\ \A m \in Months \ {selectedMonth} : ENABLED SetSelectedMonth(m)
                     /\ \A d \in Dates \ {attendanceDate} : ENABLED SetAttendanceDate(d)
                     /\ notify => ENABLED Notification)
    /\ [][/\ /\ session /\ session'
             /\ \/ selectedMonth' # selectedMonth
                \/ attendanceDate' # attendanceDate
                \/ notify /\ ~notify'
             => StartsPass
          /\ /\ [log' EXCEPT !.erred = FALSE] # [log EXCEPT !.erred = FALSE]
             /\ \/ log'.op \in {"markAttendance", "addStudent", "recordFee"} /\ log'.ok
                \/ log'.op = "markAll"
             => StartsPass
          /\ /\ Len(passes) = 1
             /\ passes' = <<>>
             /\ passes[1].failed \cap {"active", "fees"} = {}
             => /\ dashboard' # Null
                /\ origin'.dashboard = passes[1].id]_vars

\* a dashboard published by a pass that began, after an error, with all its
\* reads answered
PublishedAfterErrorWitness ==
    /\ log.erred
    /\ dashboard # Null
    /\ origin.afterError
    /\ origin.failed = {}

\* C21: every published dashboard is of one period: its active count and unpaid
\* students, its fee rows and total, its left-this-month count and its monthly
\* attendance rows are what the queries yield for the month the publishing pass
\* was started with, each over the table as that pass read it, whatever month
\* is selected by then.
SinglePeriod ==
    \A d \in dashboard :
        LET start == StartOfMonth(origin.month)
            end == EndOfMonth(origin.month, tz)
            active == ActiveStudentsQuery(origin.studentTable, start, end)
            fees == PaidFeesQuery(origin.feeTable, origin.month)
        IN /\ d.activeCount = Cardinality(active)
           /\ d.unpaidStudents \subseteq active
           /\ d.paidFees = WithStudent(fees, dbStudents)
           /\ d.totalCollected = SumAmounts(fees)
           /\ "left" \notin origin.failed =>
                 d.leftThisMonth = Cardinality(LeftStudentsQuery(origin.leftTable, start, end))
           /\ "monthly" \notin origin.failed =>
                 d.monthlyAttendance = MonthlyAttQuery(origin.attTable, start, end)

\* a pass has published after the pass of a later month change ended: the
\* dashboard counts a student left in its own month, none in the selected one
MonthChangedInFlightWitness ==
    /\ Idle
    /\ origin.month # selectedMonth
    /\ \E d \in dashboard :
          /\ d.leftThisMonth = 1
          /\ LeftStudentsQuery(origin.leftTable, StartOfMonth(selectedMonth),
                               EndOfMonth(selectedMonth, tz)) = {}
\* C22: every student record of the store has a leaving_date exactly when its
\* status is Left, and a leaving_date that is set is not before the
\* admission_date.
StudentRecordInvariant ==
    \A i \in 1..Len(dbStudents) :
        /\ dbStudents[i].leaving_date # Null <=> dbStudents[i].status = "Left"
        /\ \A d \in dbStudents[i].leaving_date : d >= dbStudents[i].admission_date

\* C23: no step takes a student from Left back to Active, removes a student
\* record, or removes or alters a fee row: the students table keeps its rows
\* and their ids, a Left row stays Left, and the fees table only gets longer.
RecordsOnlyGrow ==
    [][/\ Len(dbStudents') >= Len(dbStudents)
       /\ \A i \in 1..Len(dbStudents) :
             /\ dbStudents'[i].id = dbStudents[i].id
             /\ dbStudents[i].status = "Left" => dbStudents'[i].status = "Left"
       /\ Len(dbFees') >= Len(dbFees)
       /\ \A k \in 1..Len(dbFees) : dbFees'[k] = dbFees[k]]_vars

\* markAsLeft has just been applied to a student the list shows as Left since an
\* earlier day, and a second fee for a student and month was recorded
RecordsOnlyGrowWitness ==
    /\ log.op = "markAsLeft"
    /\ \E s \in students :
          /\ s.status = "Left"
          /\ s.leaving_date # Some(today)
          /\ dbStudents[s.id].status = "Left"
          /\ dbStudents[s.id].leaving_date = Some(today)
    /\ Len(dbFees) = 2
    /\ dbFees[1].student_id = dbFees[2].student_id
    /\ dbFees[1].fee_month = dbFees[2].fee_month

\* C30: markAsLeft leaves the record of a student who is Left unchanged: once
\* set, a leaving_date never changes.
LeavingDateFixed ==
    [][\A i \in 1..Len(dbStudents) :
          dbStudents[i].status = "Left" => dbStudents'[i] = dbStudents[i]]_vars
\* C25: a Left student with leaving_date d is in the active set a pass obtains
\* for the month that contains d, and in the active set of no later month.
LeftStudentActiveInLeavingMonth ==
    dashboard # Null =>
        \A s \in origin.studentTable : \A d \in s.leaving_date :
            s.status = "Left" =>
                /\ MonthOf(d) = origin.month => s \in origin.activeStudents
                /\ MonthOf(d) < origin.month => s \notin origin.activeStudents

\* C26: in every time zone the bounds of a pass for month M are the first and
\* the last calendar day of M; so an Active student admitted on a day of M is in
\* the active set for M, and one admitted after M is not.
MonthBoundsAreCalendarDays ==
    dashboard # Null =>
        /\ StartOfMonth(origin.month) = FirstDay(origin.month)
        /\ EndOfMonth(origin.month, tz) = LastDay(origin.month)
        /\ \A s \in origin.studentTable :
              s.status = "Active" =>
                 /\ MonthOf(s.admission_date) = origin.month => s \in origin.activeStudents
                 /\ MonthOf(s.admission_date) > origin.month => s \notin origin.activeStudents

\* C28: once a dashboard is published, every Active student the fees view shows,
\* whatever the search term, carries the Unpaid badge exactly when the student
\* is one of dashboard.unpaidStudents.
FeeBadgeAgreesWithDashboard ==
    \A d \in dashboard : \A term \in SearchTerms :
        \A s \in {s \in FilteredStudents(term) : s.status = "Active"} :
            FeeBadge(s) = "Unpaid" <=> s.id \in {u.id : u \in d.unpaidStudents}
MarkIsShownWhenQuiet ==
    session /\ Idle /\ ~notify =>
        \A r \in dbAttendance :
            /\ ShownStatus(r.student_id) = {r.status}
            /\ MonthOf(r.attendance_date) = selectedMonth =>
                  \E row \in AttendanceSummary(<<>>) :
                      /\ row.student.id = r.student_id
                      /\ row.stats = Counted(NoStats, r.status)
\* C29: at every time at most one channel per table is registered, none when
\* signed out and one for each of the three tables when signed in; every
\* registered callback runs fetchData for the selected month and attendance
\* date; and no step that ends signed out starts a pass.
OneSubscriptionPerTable ==
    /\ [](/\ \A j, k \in 1..Len(subscribed) :
                subscribed[j].table = subscribed[k].table => j = k
          /\ \A k \in 1..Len(subscribed) :
                /\ subscribed[k].session
                /\ subscribed[k].month = selectedMonth
                /\ subscribed[k].date = attendanceDate
          /\ ~session => subscribed = <<>>
          /\ session => {subscribed[k].table : k \in 1..Len(subscribed)}
                            = {"students", "fees", "attendance"})
    /\ [][~session' => Len(passes') <= Len(passes)]_vars

\* signed out after the month and the date were changed, with the pass of the
\* last change still in flight and a notification that was on its way dropped
SignedOutWitness ==
    /\ ~session
    /\ subscribed = <<>>
    /\ passes # <<>>
    /\ selectedMonth = 2
    /\ attendanceDate = 2
    /\ \E i \in 1..Len(dbStudents) : dbStudents[i].status = "Left"
====
